---------------------------- MODULE Spec2Model ----------------------------
(***************************************************************************)
(* Model of the normalized compression distance engine of                  *)
(* src/distances/ncd.hpp (class ncd<T>): calculate(), unsymmetric(),       *)
(* symmetric() with its sequential fallback and its wavefront-partitioned  *)
(* worker threads, and the private deflate() size oracle.                  *)
(*                                                                         *)
(* One behaviour is one public call on a newly constructed engine.  The    *)
(* number of hardware threads is chosen in Init and never changes; the     *)
(* compressor is one fixed pure function.  Indices are 0-based as in the   *)
(* code; a vector of n elements is a function on 0..n-1.                   *)
(***************************************************************************)
EXTENDS Integers, Sequences, FiniteSets, TLC

VARIABLES
    hw,             \* boost::thread::hardware_concurrency()
    m_sources,      \* ncd::m_sources
    m_isfile,       \* ncd::m_isfile
    m_cache,        \* ncd::m_cache
    m_symmetric,    \* ncd::m_symmetric (upper triangle, diagonal included)
    m_unsymmetric,  \* ncd::m_unsymmetric
    m_wavefront,    \* ncd::m_wavefront, entries <<lane, first, second>>
    l_cache,        \* unsymmetric(): local l_cache
    l_distances,    \* unsymmetric(): local l_distances
    call,           \* the public call in progress: [op, items, isfile]
    pc,             \* position of the calling thread
    li, lj,         \* loop counters i, j of the calling thread
    created,        \* number of worker threads created so far
    lanes,          \* worker threads: lane id -> [pc, k, tmp]
    ret,            \* how the call ended: [kind, exc, msg, value]
    launch,         \* m_cache and m_symmetric as the worker threads find them
    calls,          \* how often each deflate() call was made (by item index)
    cellWrites      \* who wrote each cell of m_symmetric, in order

vars == <<hw, m_sources, m_isfile, m_cache, m_symmetric, m_unsymmetric,
          m_wavefront, l_cache, l_distances, call, pc, li, lj, created, lanes,
          ret, launch, calls, cellWrites>>

fields == <<m_sources, m_isfile, m_cache, m_symmetric, m_unsymmetric, m_wavefront>>

-----------------------------------------------------------------------------
(* Bounds of the model *)

\* longest batch handed to unsymmetric() / symmetric()
MaxItems == 3
\* largest value of hardware_concurrency()
MaxThreads == 2

\* std::size_t arithmetic wraps modulo this.  The build's size_t has 64 bits;
\* the model keeps a 16 bit word, which is far above every size of the model.
SizeModulus == 2^16

\* item strings of a batch, and of calculate()
BatchStrings == {"", "a", "b"}
PairStrings  == {"", "a", "b", "e"}

\* what an uninitialised std::size_t / T can hold
GarbageSizes == {0, 7}

-----------------------------------------------------------------------------
(* Numbers of type T: exact fractions in lowest terms, den > 0 *)

Min(a, b) == IF b < a THEN b ELSE a
Max(a, b) == IF a < b THEN b ELSE a
Abs(n) == IF n < 0 THEN -n ELSE n

RECURSIVE Gcd(_, _)
Gcd(a, b) == IF b = 0 THEN a ELSE Gcd(b, a % b)

Rat(n, d) ==
    LET g == Gcd(Abs(n), d)
    IN  IF n < 0 THEN [num |-> -(Abs(n) \div g), den |-> d \div g]
                 ELSE [num |-> n \div g, den |-> d \div g]

Zero == Rat(0, 1)
One  == Rat(1, 1)
RatLess(r, s) == r.num * s.den < s.num * r.den
RatLeq(r, s)  == r.num * s.den <= s.num * r.den

GarbageReals == {Zero, Rat(9, 1)}

\* std::min(static_cast<T>(1), x) and std::min(x, static_cast<T>(1))
ClampOne(x) == IF RatLess(One, x) THEN One ELSE x

\* a - b in std::size_t
USub(a, b) == ((a - b) + SizeModulus) % SizeModulus

-----------------------------------------------------------------------------
(* The file system and the compressor *)

\* file mode: the paths std::ifstream can open, and what they hold.
\* "a" is a file with content, "e" is an empty file.
ExistingFiles == {"a", "e"}
FileContent(path) == IF path = "a" THEN <<"a">> ELSE <<>>

\* buffer mode: the bytes of the string itself
Bytes(str) == IF str = "" THEN <<>> ELSE <<str>>

SingleSize(sym) ==
    CASE sym = "a" -> 4
      [] sym = "b" -> 6
      [] OTHER     -> 5

\* compressed length of a byte stream (gzip/bzip2 behind bio::counter): a pure
\* function of the bytes, positive, and dependent on the order of concatenation.
\* Most pairs give an NCD inside [0,1]; "aa" compresses to less than "a" alone
\* and "ba" to more than "b" and "a" together.
CompressedSize(bytes) ==
    CASE Len(bytes) = 0 -> 2
      [] Len(bytes) = 1 -> SingleSize(bytes[1])
      [] bytes = <<"a", "a">> -> SingleSize("a") - 1
      [] bytes = <<"b", "a">> -> 2 * SingleSize("b") + SingleSize("a")
      [] OTHER -> SingleSize(bytes[1]) + (SingleSize(bytes[2]) \div 2)

\* the throw statements: lines 271 and 320, line 381, lines 405 and 414
ThrowVector == [exc |-> "exception::parameter",
                msg |-> "vector size must be greater than zero"]
ThrowString == [exc |-> "exception::parameter",
                msg |-> "string size must be greater than zero"]
ThrowFile   == [exc |-> "exception::parameter",
                msg |-> "file can not be opened"]

Ok(n)   == [ok |-> TRUE, size |-> n, err |-> [exc |-> "", msg |-> ""]]
Fail(e) == [ok |-> FALSE, size |-> 0, err |-> e]

\* ncd::deflate(p_str1, p_str2) under the given m_isfile
deflate(isfile, p_str1, p_str2) ==
    IF p_str1 = "" THEN Fail(ThrowString)
    ELSE IF isfile
         THEN IF p_str1 \notin ExistingFiles THEN Fail(ThrowFile)
              ELSE IF p_str2 # ""
                   THEN IF p_str2 \notin ExistingFiles THEN Fail(ThrowFile)
                        ELSE Ok(CompressedSize(FileContent(p_str1) \o FileContent(p_str2)))
                   ELSE Ok(CompressedSize(FileContent(p_str1)))
         ELSE Ok(CompressedSize(Bytes(p_str1) \o Bytes(p_str2)))

-----------------------------------------------------------------------------
(* Results of a call *)

NoValue == <<>>
NoRet   == [kind |-> "none", exc |-> "", msg |-> "", value |-> NoValue]
\* the exception reaches the caller of the public function
Thrown(e) == [kind |-> "throw", exc |-> e.exc, msg |-> e.msg, value |-> NoValue]
\* an exception that leaves a boost::thread function ends in std::terminate
Terminated(e) == [kind |-> "terminate", exc |-> e.exc, msg |-> e.msg, value |-> NoValue]
Returned(kind, v) == [kind |-> kind, exc |-> "", msg |-> "", value |-> v]

Indices(n) == 0 .. (n - 1)
Size(v) == Cardinality(DOMAIN v)
Vectors(S, n) == [Indices(n) -> S]
Batches == UNION {Vectors(BatchStrings, n) : n \in 0 .. MaxItems}

FullCells(n)  == Indices(n) \X Indices(n)
UpperCells(n) == {c \in FullCells(n) : c[1] <= c[2]}

CallSigs == {<<i>> : i \in Indices(MaxItems)} \cup FullCells(MaxItems)
NoCalls == [s \in CallSigs |-> 0]
Count(c, sig) == [c EXCEPT ![sig] = @ + 1]

NoCall == [op |-> "none", items |-> <<>>, isfile |-> FALSE]
NoLaunch == [cache |-> <<>>, matrix |-> <<>>]

-----------------------------------------------------------------------------
(* ncd::ncd() *)

Init ==
    /\ hw \in 1 .. MaxThreads
    /\ m_sources = <<>>
    /\ m_isfile = FALSE
    /\ m_cache = <<>>
    /\ m_symmetric = <<>>
    /\ m_unsymmetric = <<>>
    /\ m_wavefront = <<>>
    /\ l_cache = <<>>
    /\ l_distances = <<>>
    /\ call = NoCall
    /\ pc = "idle"
    /\ li = 0
    /\ lj = 0
    /\ created = 0
    /\ lanes = <<>>
    /\ ret = NoRet
    /\ launch = NoLaunch
    /\ calls = NoCalls
    /\ cellWrites = <<>>

\* the calling thread leaves the public function
Finish(r) ==
    /\ ret' = r
    /\ pc' = "done"

-----------------------------------------------------------------------------
(* ncd::calculate *)

\* line 257 with the difference taken in std::size_t, as lines 186 and 364 do
CalculateValueWrapped(sab, l_first, l_second) ==
    Rat(USub(sab, Min(l_first, l_second)), Max(l_first, l_second))

\* line 257: ( static_cast<T>(deflate(a,b)) - min(first, second) ) / max(first, second)
CalculateValue(sab, l_first, l_second) ==
    Rat(sab - Min(l_first, l_second), Max(l_first, l_second))

calculate(p_str1, p_str2, p_isfile) ==
    LET l_first  == deflate(p_isfile, p_str1, "")
        l_second == deflate(p_isfile, p_str2, "")
        both     == deflate(p_isfile, p_str1, p_str2)
    IN  /\ pc = "idle"
        /\ call' = [op |-> "calculate", items |-> (0 :> p_str1 @@ 1 :> p_str2),
                    isfile |-> p_isfile]
        /\ m_isfile' = p_isfile
        /\ IF ~l_first.ok
           THEN /\ Finish(Thrown(l_first.err))
                /\ calls' = Count(calls, <<0>>)
           ELSE IF ~l_second.ok
           THEN /\ Finish(Thrown(l_second.err))
                /\ calls' = Count(Count(calls, <<0>>), <<1>>)
           ELSE IF ~both.ok
           THEN /\ Finish(Thrown(both.err))
                /\ calls' = Count(Count(Count(calls, <<0>>), <<1>>), <<0, 1>>)
           ELSE /\ Finish(Returned("value",
                            CalculateValue(both.size, l_first.size, l_second.size)))
                /\ calls' = Count(Count(Count(calls, <<0>>), <<1>>), <<0, 1>>)
        /\ UNCHANGED <<hw, m_sources, m_cache, m_symmetric, m_unsymmetric,
                       m_wavefront, l_cache, l_distances, li, lj, created, lanes,
                       launch, cellWrites>>

-----------------------------------------------------------------------------
(* ncd::unsymmetric *)

\* lines 301-302 without std::min( .. , 1 )
UnsymmetricValueUncapped(sab, l_min, l_max) == Rat(sab - l_min, l_max)

\* lines 301-302: std::min( (static_cast<T>(deflate(..)) - l_min) / l_max, 1 )
UnsymmetricValue(sab, l_min, l_max) == ClampOne(Rat(sab - l_min, l_max))

\* lines 270-278: the size check, m_isfile, and the two uninitialised locals
unsymmetric(p_strvec, p_isfile) ==
    /\ pc = "idle"
    /\ call' = [op |-> "unsymmetric", items |-> p_strvec, isfile |-> p_isfile]
    /\ IF Size(p_strvec) = 0
       THEN /\ Finish(Thrown(ThrowVector))
            /\ UNCHANGED <<m_isfile, l_cache, l_distances, li>>
       ELSE /\ m_isfile' = p_isfile
            /\ \E fill \in GarbageReals :
                 /\ l_distances' = [c \in FullCells(Size(p_strvec)) |-> fill]
                 /\ l_cache' \in Vectors(GarbageSizes, Size(p_strvec))
            /\ li' = 0
            /\ pc' = "uns_row"
            /\ ret' = ret
    /\ UNCHANGED <<hw, m_sources, m_cache, m_symmetric, m_unsymmetric,
                   m_wavefront, lj, created, lanes, launch, calls, cellWrites>>

\* lines 281-288: head of the outer loop body
UnsRow ==
    /\ pc = "uns_row"
    /\ li < Size(call.items)
    /\ LET d == deflate(m_isfile, call.items[li], "")
       IN  IF li = 0 /\ ~d.ok
           THEN /\ Finish(Thrown(d.err))
                /\ calls' = Count(calls, <<li>>)
                /\ UNCHANGED <<l_cache, l_distances, lj>>
           ELSE /\ l_cache' = IF li = 0 THEN [l_cache EXCEPT ![li] = d.size] ELSE l_cache
                /\ calls' = IF li = 0 THEN Count(calls, <<li>>) ELSE calls
                /\ l_distances' = [l_distances EXCEPT ![<<li, li>>] = Zero]
                /\ lj' = li + 1
                /\ pc' = "uns_inner"
                /\ ret' = ret
    /\ UNCHANGED <<hw, fields, call, li, created, lanes, launch, cellWrites>>

\* lines 290-303: one pass of the inner loop
UnsInner ==
    /\ pc = "uns_inner"
    /\ lj < Size(call.items)
    /\ LET dj     == deflate(m_isfile, call.items[lj], "")
           cache1 == IF li = 0 THEN [l_cache EXCEPT ![lj] = dj.size] ELSE l_cache
           calls1 == IF li = 0 THEN Count(calls, <<lj>>) ELSE calls
           l_min  == Min(cache1[li], cache1[lj])
           l_max  == Max(cache1[li], cache1[lj])
           dij    == deflate(m_isfile, call.items[li], call.items[lj])
           dji    == deflate(m_isfile, call.items[lj], call.items[li])
           calls2 == Count(calls1, <<li, lj>>)
           calls3 == Count(calls2, <<lj, li>>)
       IN  IF li = 0 /\ ~dj.ok
           THEN /\ Finish(Thrown(dj.err))
                /\ calls' = calls1
                /\ UNCHANGED <<l_cache, l_distances, lj>>
           ELSE IF ~dij.ok
           THEN /\ Finish(Thrown(dij.err))
                /\ calls' = calls2
                /\ l_cache' = cache1
                /\ UNCHANGED <<l_distances, lj>>
           ELSE IF ~dji.ok
           THEN /\ Finish(Thrown(dji.err))
                /\ calls' = calls3
                /\ l_cache' = cache1
                /\ l_distances' = [l_distances EXCEPT
                        ![<<li, lj>>] = UnsymmetricValue(dij.size, l_min, l_max)]
                /\ lj' = lj
           ELSE /\ calls' = calls3
                /\ l_cache' = cache1
                /\ l_distances' = [l_distances EXCEPT
                        ![<<li, lj>>] = UnsymmetricValue(dij.size, l_min, l_max),
                        ![<<lj, li>>] = UnsymmetricValue(dji.size, l_min, l_max)]
                /\ lj' = lj + 1
                /\ pc' = pc
                /\ ret' = ret
    /\ UNCHANGED <<hw, fields, call, li, created, lanes, launch, cellWrites>>

\* line 290 / 281: the inner loop ends, ++i
UnsRowEnd ==
    /\ pc = "uns_inner"
    /\ lj >= Size(call.items)
    /\ li' = li + 1
    /\ pc' = "uns_row"
    /\ UNCHANGED <<hw, fields, l_cache, l_distances, call, lj, created,
                   lanes, ret, launch, calls, cellWrites>>

\* line 307
UnsReturn ==
    /\ pc = "uns_row"
    /\ li >= Size(call.items)
    /\ Finish(Returned("matrix", l_distances))
    /\ UNCHANGED <<hw, fields, l_cache, l_distances, call, li, lj, created,
                   lanes, launch, calls, cellWrites>>

-----------------------------------------------------------------------------
(* ncd::symmetric: entry and sequential fallback *)

\* lines 186 and 364: std::min( 1, static_cast<T>(deflate(..) - min(ci, cj)) / max(ci, cj) ),
\* the difference taken in std::size_t before the conversion to T
SymmetricValue(sab, ci, cj) == ClampOne(Rat(USub(sab, Min(ci, cj)), Max(ci, cj)))

\* line 331
UseThreads == hw > 1

\* lines 319-331 with the size check moved behind the assignments of the fields
symmetricLateCheck(p_strvec, p_isfile) ==
    /\ pc = "idle"
    /\ call' = [op |-> "symmetric", items |-> p_strvec, isfile |-> p_isfile]
    /\ m_sources' = p_strvec
    /\ m_isfile' = p_isfile
    /\ \E fill \in GarbageReals :
         /\ m_symmetric' = [c \in UpperCells(Size(p_strvec)) |-> fill]
         /\ m_cache' \in Vectors(GarbageSizes, Size(p_strvec))
    /\ m_unsymmetric' = <<>>
    /\ m_wavefront' = m_wavefront
    /\ cellWrites' = [c \in UpperCells(Size(p_strvec)) |-> <<>>]
    /\ IF Size(p_strvec) = 0
       THEN Finish(Thrown(ThrowVector))
       ELSE /\ pc' = IF UseThreads THEN "par_first" ELSE "seq_row"
            /\ ret' = ret
    /\ li' = 0
    /\ UNCHANGED <<hw, l_cache, l_distances, lj, created, lanes, launch, calls>>

\* lines 319-331: the size check, the member fields, the choice of the path.
\* ublas::vector<std::size_t>(n) and ublas::symmetric_matrix<T>(n, n) leave
\* their storage uninitialised.
symmetric(p_strvec, p_isfile) ==
    /\ pc = "idle"
    /\ call' = [op |-> "symmetric", items |-> p_strvec, isfile |-> p_isfile]
    /\ IF Size(p_strvec) = 0
       THEN /\ Finish(Thrown(ThrowVector))
            /\ UNCHANGED <<fields, cellWrites>>
       ELSE /\ m_sources' = p_strvec
            /\ m_isfile' = p_isfile
            /\ \E fill \in GarbageReals :
                 /\ m_symmetric' = [c \in UpperCells(Size(p_strvec)) |-> fill]
                 /\ m_cache' \in Vectors(GarbageSizes, Size(p_strvec))
            /\ m_unsymmetric' = <<>>
            /\ m_wavefront' = m_wavefront
            /\ cellWrites' = [c \in UpperCells(Size(p_strvec)) |-> <<>>]
            /\ pc' = IF UseThreads THEN "par_first" ELSE "seq_row"
            /\ ret' = ret
    /\ li' = 0
    /\ UNCHANGED <<hw, l_cache, l_distances, lj, created, lanes, launch, calls>>

\* lines 351-357: head of the outer loop body of the fallback
SeqRow ==
    /\ pc = "seq_row"
    /\ li < Size(m_sources)
    /\ LET d == deflate(m_isfile, m_sources[li], "")
       IN  IF li = 0 /\ ~d.ok
           THEN /\ Finish(Thrown(d.err))
                /\ calls' = Count(calls, <<li>>)
                /\ UNCHANGED <<m_cache, m_symmetric, cellWrites, lj>>
           ELSE /\ m_cache' = IF li = 0 THEN [m_cache EXCEPT ![li] = d.size] ELSE m_cache
                /\ calls' = IF li = 0 THEN Count(calls, <<li>>) ELSE calls
                /\ m_symmetric' = [m_symmetric EXCEPT ![<<li, li>>] = Zero]
                /\ cellWrites' = [cellWrites EXCEPT ![<<li, li>>] = Append(@, -1)]
                /\ lj' = li + 1
                /\ pc' = "seq_inner"
                /\ ret' = ret
    /\ UNCHANGED <<hw, m_sources, m_isfile, m_unsymmetric, m_wavefront,
                   l_cache, l_distances, call, li, created, lanes, launch>>

\* lines 358-365: one pass of the inner loop of the fallback
SeqInner ==
    /\ pc = "seq_inner"
    /\ lj < Size(m_sources)
    /\ LET dj     == deflate(m_isfile, m_sources[lj], "")
           cache1 == IF li = 0 THEN [m_cache EXCEPT ![lj] = dj.size] ELSE m_cache
           calls1 == IF li = 0 THEN Count(calls, <<lj>>) ELSE calls
           dij    == deflate(m_isfile, m_sources[li], m_sources[lj])
       IN  IF li = 0 /\ ~dj.ok
           THEN /\ Finish(Thrown(dj.err))
                /\ calls' = calls1
                /\ UNCHANGED <<m_cache, m_symmetric, cellWrites, lj>>
           ELSE IF ~dij.ok
           THEN /\ Finish(Thrown(dij.err))
                /\ calls' = Count(calls1, <<li, lj>>)
                /\ m_cache' = cache1
                /\ UNCHANGED <<m_symmetric, cellWrites, lj>>
           ELSE /\ calls' = Count(calls1, <<li, lj>>)
                /\ m_cache' = cache1
                /\ m_symmetric' = [m_symmetric EXCEPT
                        ![<<li, lj>>] = SymmetricValue(dij.size, cache1[li], cache1[lj])]
                /\ cellWrites' = [cellWrites EXCEPT ![<<li, lj>>] = Append(@, -1)]
                /\ lj' = lj + 1
                /\ pc' = pc
                /\ ret' = ret
    /\ UNCHANGED <<hw, m_sources, m_isfile, m_unsymmetric, m_wavefront,
                   l_cache, l_distances, call, li, created, lanes, launch>>

\* line 358 / 351: the inner loop ends, ++i
SeqRowEnd ==
    /\ pc = "seq_inner"
    /\ lj >= Size(m_sources)
    /\ li' = li + 1
    /\ pc' = "seq_row"
    /\ UNCHANGED <<hw, fields, l_cache, l_distances, call, lj, created,
                   lanes, ret, launch, calls, cellWrites>>

\* line 369, reached from the fallback
SeqReturn ==
    /\ pc = "seq_row"
    /\ li >= Size(m_sources)
    /\ Finish(Returned("matrix", m_symmetric))
    /\ UNCHANGED <<hw, fields, l_cache, l_distances, call, li, lj, created,
                   lanes, launch, calls, cellWrites>>

-----------------------------------------------------------------------------
(* ncd::getWavefrontIndex *)

\* lines 158-161: the two loops, i from p_size-1 down to 1, j from 0 while
\* i+j < p_size, inserting (n++ % p_threads, (j, i+j)).  A multimap keeps
\* entries of one key in the order of their insertion.
RECURSIVE WavefrontLoop(_, _, _, _, _, _)
WavefrontLoop(i, j, n, acc, p_size, p_threads) ==
    IF ~(i > 0) THEN acc
    ELSE IF (i + j) < p_size
         THEN WavefrontLoop(i, j + 1, n + 1,
                            Append(acc, <<n % p_threads, j, i + j>>), p_size, p_threads)
         ELSE WavefrontLoop(i - 1, 0, n, acc, p_size, p_threads)

\* line 161 with n++ % 1: every pair goes to lane 0
getWavefrontIndexOneLane(p_size, p_threads) ==
    WavefrontLoop(USub(p_size, 1), 0, 0, <<>>, p_size, 1)

\* line 157 with the counter n started at 1
getWavefrontIndexFromOne(p_size, p_threads) ==
    WavefrontLoop(USub(p_size, 1), 0, 1, <<>>, p_size, p_threads)

\* lines 154-158: the map is cleared, n = 0, and the loops start at
\* i = p_size-1, a difference of two std::size_t
getWavefrontIndex(p_size, p_threads) ==
    WavefrontLoop(USub(p_size, 1), 0, 0, <<>>, p_size, p_threads)

\* line 174 with the range of the whole map instead of the range of the key p_id
LanePairsAll(p_id) == m_wavefront

\* line 174: the range lower_bound(p_id) .. upper_bound(p_id)
LanePairs(p_id) == SelectSeq(m_wavefront, LAMBDA e : e[1] = p_id)

-----------------------------------------------------------------------------
(* ncd::symmetric: the calling thread on the parallel path *)

\* line 335
ParFirst ==
    /\ pc = "par_first"
    /\ LET d == deflate(m_isfile, call.items[0], "")
       IN  /\ calls' = Count(calls, <<0>>)
           /\ IF ~d.ok
              THEN /\ Finish(Thrown(d.err))
                   /\ UNCHANGED m_cache
              ELSE /\ m_cache' = [m_cache EXCEPT ![0] = d.size]
                   /\ pc' = "par_last"
                   /\ ret' = ret
    /\ UNCHANGED <<hw, m_sources, m_isfile, m_symmetric, m_unsymmetric,
                   m_wavefront, l_cache, l_distances, call, li, lj, created, lanes,
                   launch, cellWrites>>

\* line 336 left out: the last item is not compressed by the calling thread
ParLastSkipped ==
    /\ pc = "par_last"
    /\ pc' = "par_wavefront"
    /\ UNCHANGED <<hw, fields, l_cache, l_distances, call, li, lj, created,
                   lanes, ret, launch, calls, cellWrites>>

\* line 336
ParLast ==
    /\ pc = "par_last"
    /\ LET last == Size(call.items) - 1
           d    == deflate(m_isfile, call.items[last], "")
       IN  /\ calls' = Count(calls, <<last>>)
           /\ IF ~d.ok
              THEN /\ Finish(Thrown(d.err))
                   /\ UNCHANGED m_cache
              ELSE /\ m_cache' = [m_cache EXCEPT ![last] = d.size]
                   /\ pc' = "par_wavefront"
                   /\ ret' = ret
    /\ UNCHANGED <<hw, m_sources, m_isfile, m_symmetric, m_unsymmetric,
                   m_wavefront, l_cache, l_distances, call, li, lj, created, lanes,
                   launch, cellWrites>>

\* line 339
ParWavefront ==
    /\ pc = "par_wavefront"
    /\ m_wavefront' = getWavefrontIndex(Size(call.items), hw)
    /\ launch' = [cache |-> m_cache, matrix |-> m_symmetric]
    /\ pc' = "par_create"
    /\ UNCHANGED <<hw, m_sources, m_isfile, m_cache, m_symmetric,
                   m_unsymmetric, l_cache, l_distances, call, li, lj, created, lanes,
                   ret, calls, cellWrites>>

\* lines 343-344: one pass of the loop; the new thread runs from here on
ParCreate ==
    /\ pc = "par_create"
    /\ ret.kind = "none"
    /\ created < hw
    /\ lanes' = [t \in Indices(created + 1) |->
                    IF t < created THEN lanes[t] ELSE [pc |-> "test1", k |-> 1, tmp |-> 0]]
    /\ created' = created + 1
    /\ UNCHANGED <<hw, fields, l_cache, l_distances, call, pc, li, lj, ret,
                   launch, calls, cellWrites>>

\* line 347 left out: the threads are not waited for
JoinNone == TRUE

\* line 347: join_all() waits for every thread of the group
JoinAll == \A t \in DOMAIN lanes : lanes[t].pc = "done"

\* lines 343, 347, 369: the loop ends, the threads are joined, the matrix returned
ParJoin ==
    /\ pc = "par_create"
    /\ ret.kind = "none"
    /\ ~(created < hw)
    /\ JoinAll
    /\ Finish(Returned("matrix", m_symmetric))
    /\ UNCHANGED <<hw, fields, l_cache, l_distances, call, li, lj, created,
                   lanes, launch, calls, cellWrites>>

-----------------------------------------------------------------------------
(* ncd::multithread_deflate(p_id, true): one worker thread *)

\* the process is still there: std::terminate has not been called
Running == ret.kind # "terminate"

LaneAt(t, where) ==
    /\ Running
    /\ t \in DOMAIN lanes
    /\ lanes[t].pc = where

First(t)  == LanePairs(t)[lanes[t].k][2]
Second(t) == LanePairs(t)[lanes[t].k][3]

Goto(t, where) == lanes' = [lanes EXCEPT ![t].pc = where]

\* lines 177 and 180: the test of a cache entry against the value 0
Uncomputed(v) == v = 0

\* an exception leaves the thread function: the process is terminated
LaneThrows(e) ==
    /\ ret' = Terminated(e)
    /\ pc' = "done"

\* line 174 with the end of the range taken one entry too far: the thread
\* does not leave the loop at the end of its lane
LaneExitLate(t) ==
    /\ LaneAt(t, "test1")
    /\ lanes[t].k > Len(LanePairs(t)) + 1
    /\ Goto(t, "done")
    /\ UNCHANGED <<hw, fields, l_cache, l_distances, call, pc, li, lj,
                   created, ret, launch, calls, cellWrites>>

\* line 174: the loop condition fails, the thread function returns
LaneExit(t) ==
    /\ LaneAt(t, "test1")
    /\ lanes[t].k > Len(LanePairs(t))
    /\ Goto(t, "done")
    /\ UNCHANGED <<hw, fields, l_cache, l_distances, call, pc, li, lj,
                   created, ret, launch, calls, cellWrites>>

\* line 177
LaneTestFirst(t) ==
    /\ LaneAt(t, "test1")
    /\ lanes[t].k <= Len(LanePairs(t))
    /\ Goto(t, IF Uncomputed(m_cache[First(t)]) THEN "store1" ELSE "test2")
    /\ UNCHANGED <<hw, fields, l_cache, l_distances, call, pc, li, lj,
                   created, ret, launch, calls, cellWrites>>

\* line 178
LaneStoreFirst(t) ==
    /\ LaneAt(t, "store1")
    /\ LET d == deflate(m_isfile, m_sources[First(t)], "")
       IN  /\ calls' = Count(calls, <<First(t)>>)
           /\ IF ~d.ok
              THEN /\ LaneThrows(d.err)
                   /\ UNCHANGED <<m_cache, lanes>>
              ELSE /\ m_cache' = [m_cache EXCEPT ![First(t)] = d.size]
                   /\ Goto(t, "test2")
                   /\ UNCHANGED <<pc, ret>>
    /\ UNCHANGED <<hw, m_sources, m_isfile, m_symmetric, m_unsymmetric,
                   m_wavefront, l_cache, l_distances, call, li, lj, created, launch,
                   cellWrites>>

\* line 180 left out: the second index goes untested
LaneSkipTestSecond(t) ==
    /\ LaneAt(t, "test2")
    /\ Goto(t, "compress")
    /\ UNCHANGED <<hw, fields, l_cache, l_distances, call, pc, li, lj,
                   created, ret, launch, calls, cellWrites>>

\* line 180
LaneTestSecond(t) ==
    /\ LaneAt(t, "test2")
    /\ Goto(t, IF Uncomputed(m_cache[Second(t)]) THEN "store2" ELSE "compress")
    /\ UNCHANGED <<hw, fields, l_cache, l_distances, call, pc, li, lj,
                   created, ret, launch, calls, cellWrites>>

\* line 181
LaneStoreSecond(t) ==
    /\ LaneAt(t, "store2")
    /\ LET d == deflate(m_isfile, m_sources[Second(t)], "")
       IN  /\ calls' = Count(calls, <<Second(t)>>)
           /\ IF ~d.ok
              THEN /\ LaneThrows(d.err)
                   /\ UNCHANGED <<m_cache, lanes>>
              ELSE /\ m_cache' = [m_cache EXCEPT ![Second(t)] = d.size]
                   /\ Goto(t, "compress")
                   /\ UNCHANGED <<pc, ret>>
    /\ UNCHANGED <<hw, m_sources, m_isfile, m_symmetric, m_unsymmetric,
                   m_wavefront, l_cache, l_distances, call, li, lj, created, launch,
                   cellWrites>>

\* line 186 with the arguments swapped: deflate(m_sources[second], m_sources[first])
LaneCompressSwapped(t) ==
    /\ LaneAt(t, "compress")
    /\ LET d == deflate(m_isfile, m_sources[Second(t)], m_sources[First(t)])
       IN  /\ calls' = Count(calls, <<Second(t), First(t)>>)
           /\ IF ~d.ok
              THEN /\ LaneThrows(d.err)
                   /\ UNCHANGED lanes
              ELSE /\ lanes' = [lanes EXCEPT ![t].pc = "cell", ![t].tmp = d.size]
                   /\ UNCHANGED <<pc, ret>>
    /\ UNCHANGED <<hw, fields, l_cache, l_distances, call, li, lj, created,
                   launch, cellWrites>>

\* line 186: deflate(m_sources[first], m_sources[second])
LaneCompress(t) ==
    /\ LaneAt(t, "compress")
    /\ LET d == deflate(m_isfile, m_sources[First(t)], m_sources[Second(t)])
       IN  /\ calls' = Count(calls, <<First(t), Second(t)>>)
           /\ IF ~d.ok
              THEN /\ LaneThrows(d.err)
                   /\ UNCHANGED lanes
              ELSE /\ lanes' = [lanes EXCEPT ![t].pc = "cell", ![t].tmp = d.size]
                   /\ UNCHANGED <<pc, ret>>
    /\ UNCHANGED <<hw, fields, l_cache, l_distances, call, li, lj, created,
                   launch, cellWrites>>

\* lines 184-187: the cache is read, the cell is written, ++it
LaneCell(t) ==
    /\ LaneAt(t, "cell")
    /\ m_symmetric' = [m_symmetric EXCEPT ![<<First(t), Second(t)>>] =
            SymmetricValue(lanes[t].tmp, m_cache[First(t)], m_cache[Second(t)])]
    /\ cellWrites' = [cellWrites EXCEPT ![<<First(t), Second(t)>>] = Append(@, t)]
    /\ lanes' = [lanes EXCEPT ![t] = [pc |-> "test1", k |-> @.k + 1, tmp |-> 0]]
    /\ UNCHANGED <<hw, m_sources, m_isfile, m_cache, m_unsymmetric,
                   m_wavefront, l_cache, l_distances, call, pc, li, lj, created, ret,
                   launch, calls>>

Lane(t) ==
    \/ LaneExit(t)
    \/ LaneTestFirst(t)
    \/ LaneStoreFirst(t)
    \/ LaneTestSecond(t)
    \/ LaneStoreSecond(t)
    \/ LaneCompress(t)
    \/ LaneCell(t)

-----------------------------------------------------------------------------
(* The specification *)

Next ==
    \/ \E a, b \in PairStrings, f \in BOOLEAN : calculate(a, b, f)
    \/ \E v \in Batches, f \in BOOLEAN : unsymmetric(v, f)
    \/ UnsRow
    \/ UnsInner
    \/ UnsRowEnd
    \/ UnsReturn
    \/ \E v \in Batches, f \in BOOLEAN : symmetric(v, f)
    \/ SeqRow
    \/ SeqInner
    \/ SeqRowEnd
    \/ SeqReturn
    \/ ParFirst
    \/ ParLast
    \/ ParWavefront
    \/ ParCreate
    \/ ParJoin
    \/ \E t \in Indices(MaxThreads) : Lane(t)

Spec == Init /\ [][Next]_vars

\* the steps of the thread that made the call, once it is inside the call
Caller ==
    \/ UnsRow \/ UnsInner \/ UnsRowEnd \/ UnsReturn
    \/ SeqRow \/ SeqInner \/ SeqRowEnd \/ SeqReturn
    \/ ParFirst \/ ParLast \/ ParWavefront \/ ParCreate \/ ParJoin

\* Every thread that can run does run: the calling thread and each thread of
\* the boost::thread_group are scheduled by the operating system, and
\* join_all() (line 347) returns once the threads have finished.
FairSpec ==
    /\ Spec
    /\ WF_vars(Caller)
    /\ \A t \in Indices(MaxThreads) : WF_vars(Lane(t))

-----------------------------------------------------------------------------
(* What the claims speak about *)

Batch == call.op \in {"unsymmetric", "symmetric"}
N == Size(call.items)
OnThreads  == call.op = "symmetric" /\ UseThreads
OnFallback == call.op = "symmetric" /\ ~UseThreads
GotMatrix  == ret.kind = "matrix"

\* the compressed sizes of the items of the call, taken from the compressor
SizeOf(k) == deflate(call.isfile, call.items[k], "").size
PairSize(i, j) == deflate(call.isfile, call.items[i], call.items[j]).size

\* the matrix of the sequential fallback: 0 on the diagonal, the clamped
\* unsigned formula over the items' own sizes elsewhere
FallbackMatrix ==
    [c \in UpperCells(N) |->
        IF c[1] = c[2] THEN Zero
        ELSE SymmetricValue(PairSize(c[1], c[2]), SizeOf(c[1]), SizeOf(c[2]))]

\* the sequential fallback returns FallbackMatrix (holds; it anchors C3)
FallbackReturnsFallbackMatrix ==
    (OnFallback /\ GotMatrix) => ret.value = FallbackMatrix

\* C1: every matrix returned by unsymmetric() or symmetric(), on either path,
\* has the entry (i,i) equal to 0 for every index i of the batch.
C1_DiagonalZero ==
    (Batch /\ GotMatrix) => \A i \in Indices(N) : ret.value[<<i, i>>] = Zero

\* the part of C1 that the code keeps: unsymmetric() and the fallback
C1_DiagonalZeroWithoutThreads ==
    (Batch /\ GotMatrix /\ ~OnThreads) => \A i \in Indices(N) : ret.value[<<i, i>>] = Zero

\* C2: every entry of a matrix returned by unsymmetric() or symmetric() lies
\* in the closed interval [0,1].
C2_EntriesInUnitInterval ==
    (Batch /\ GotMatrix) =>
        \A c \in DOMAIN ret.value :
            RatLeq(Zero, ret.value[c]) /\ RatLeq(ret.value[c], One)

\* C3: symmetric() returns the same matrix on the parallel path as on the
\* sequential fallback, diagonal cells included.
C3_ParallelEqualsSequential ==
    (call.op = "symmetric" /\ GotMatrix) => ret.value = FallbackMatrix

\* what the worker threads find in the cache entry k when they start, or put
\* there themselves
LaunchSize(k) == IF launch.cache[k] = 0 THEN SizeOf(k) ELSE launch.cache[k]

\* the cell c as the state at the launch of the threads determines it
LaunchCell(c) ==
    IF c[1] = c[2] THEN launch.matrix[c]
    ELSE SymmetricValue(PairSize(c[1], c[2]), LaunchSize(c[1]), LaunchSize(c[2]))

\* the matrix as the state at the launch of the threads determines it
LaunchMatrix == [c \in UpperCells(N) |-> LaunchCell(c)]

\* C4: on the parallel path the content of every cell is fixed by the items,
\* the worker count and the memory the threads start from: whatever the
\* interleaving, a written cell holds that value and the returned matrix is
\* that matrix.
C4_ScheduleIndependent ==
    (OnThreads /\ launch # NoLaunch) =>
        /\ \A c \in UpperCells(N) :
              cellWrites[c] # <<>> => m_symmetric[c] = LaunchCell(c)
        /\ GotMatrix => ret.value = LaunchMatrix

\* two threads raced on the cache entry of item 1 (both compressed it), and
\* the matrix was returned
C4_Witness ==
    /\ OnThreads
    /\ GotMatrix
    /\ N >= 3
    /\ calls[<<1>>] = 2

\* C5: unsymmetric() and symmetric() with an empty item list throw the
\* "vector size" error at once: nothing is allocated, nothing is compressed,
\* no thread is created, and every field keeps the value the constructor gave it.
C5_EmptyBatchRejected ==
    (Batch /\ N = 0) =>
        /\ pc = "done"
        /\ ret = Thrown(ThrowVector)
        /\ fields = <<<<>>, FALSE, <<>>, <<>>, <<>>, <<>>>>
        /\ l_cache = <<>>
        /\ l_distances = <<>>
        /\ calls = NoCalls
        /\ created = 0
        /\ lanes = <<>>
        /\ launch = NoLaunch
        /\ cellWrites = <<>>

\* symmetric() was called in file mode with no items and has thrown
C5_Witness ==
    /\ call.op = "symmetric"
    /\ N = 0
    /\ call.isfile
    /\ ret.kind = "throw"

\* C6: when a compression of a batch call fails, the call ends with that
\* error thrown to its caller, on the fallback and on the parallel path.
C6_FailureSurfaces ==
    (Batch /\ ret.msg \in {ThrowString.msg, ThrowFile.msg}) => ret.kind = "throw"

\* the item is an empty buffer: the empty string, or in file mode a file that
\* opens and holds nothing
ResolvesToEmpty(item) ==
    IF call.isfile THEN item \in ExistingFiles /\ FileContent(item) = <<>>
                   ELSE item = ""

\* file mode: the path cannot be opened
Unopenable(item) == call.isfile /\ item \notin ExistingFiles

\* the deflate() invocation that the call signature stands for
Invocation(sig) ==
    IF Len(sig) = 1
    THEN deflate(call.isfile, call.items[sig[1]], "")
    ELSE deflate(call.isfile, call.items[sig[1]], call.items[sig[2]])

SigItems(sig) == {call.items[sig[k]] : k \in 1 .. Len(sig)}

\* C7: every deflate() invocation made with an item that resolves to an empty
\* buffer (one-item form, either item of the two-item form, an empty file in
\* file mode) fails with the "string size" error.
C7_EmptyBufferRejected ==
    \A sig \in CallSigs :
        ( /\ calls[sig] > 0
          /\ \E item \in SigItems(sig) : ResolvesToEmpty(item)
          /\ \A item \in SigItems(sig) : ~Unopenable(item) )
        => ( ~Invocation(sig).ok /\ Invocation(sig).err = ThrowString )

\* C8: a path that cannot be opened makes the call throw an error of another
\* kind than the one thrown for an empty batch or an empty item.
C8_UnopenableIsIOError ==
    ret.msg = ThrowFile.msg =>
        /\ ret.kind = "throw"
        /\ ret.exc \notin {ThrowVector.exc, ThrowString.exc}

\* C9: calculate(a, b) makes exactly the calls deflate(a), deflate(b),
\* deflate(a, b) and returns (sizeAB - min) / max as a signed, unclamped
\* quotient: above 1 when sizeAB > min + max, below 0 when sizeAB < min.
C9_CalculateUnclamped ==
    (call.op = "calculate" /\ ret.kind = "value") =>
        LET sa  == SizeOf(0)
            sb  == SizeOf(1)
            sab == PairSize(0, 1)
            lo  == IF sa < sb THEN sa ELSE sb
            hi  == IF sa < sb THEN sb ELSE sa
        IN  /\ ret.value.num * hi = (sab - lo) * ret.value.den
            /\ ret.value.den > 0
            /\ sab > lo + hi => RatLess(One, ret.value)
            /\ sab < lo => RatLess(ret.value, Zero)
            /\ calls = [NoCalls EXCEPT ![<<0>>] = 1, ![<<1>>] = 1, ![<<0, 1>>] = 1]

\* calculate() returned a value below 0
C9_Witness ==
    /\ call.op = "calculate"
    /\ ret.kind = "value"
    /\ RatLess(ret.value, Zero)

\* C10: on the parallel path the matrix is returned only when every thread
\* has been created and has finished; every cell (i,j) with i<j has then been
\* written by a thread, and no thread has a step left.
C10_ReturnAfterJoin ==
    (OnThreads /\ GotMatrix) =>
        /\ created = hw
        /\ \A t \in Indices(hw) : t \in DOMAIN lanes /\ lanes[t].pc = "done"
        /\ \A c \in UpperCells(N) :
              c[1] < c[2] => \E k \in 1 .. Len(cellWrites[c]) : cellWrites[c][k] \in Indices(hw)
        /\ ~ENABLED (\E t \in Indices(MaxThreads) : Lane(t))

\* symmetric() returned on the parallel path after two threads wrote cells
C10_Witness ==
    /\ OnThreads
    /\ GotMatrix
    /\ \E c, d \in UpperCells(N) :
          /\ cellWrites[c] # <<>>
          /\ cellWrites[d] # <<>>
          /\ cellWrites[c][1] # cellWrites[d][1]

\* the partition has been built (line 339 has run)
Partitioned == OnThreads /\ launch # NoLaunch

PairCount(n) == (n * (n - 1)) \div 2

\* w lists the pairs i<j below n along the anti-diagonals, the distance j-i
\* falling from n-1 to 1 and the smaller index rising inside one distance,
\* each pair once, the k-th entry (from 0) on lane k mod t
AntiDiagonalOrder(w, n, t) ==
    /\ Len(w) = PairCount(n)
    /\ \A k \in 1 .. Len(w) :
          /\ w[k][1] = (k - 1) % t
          /\ 0 <= w[k][2] /\ w[k][2] < w[k][3] /\ w[k][3] < n
    /\ \A i, j \in Indices(n) :
          i < j => Cardinality({k \in 1 .. Len(w) : w[k][2] = i /\ w[k][3] = j}) = 1
    /\ \A k, m \in 1 .. Len(w) :
          k < m => \/ w[k][3] - w[k][2] > w[m][3] - w[m][2]
                   \/ /\ w[k][3] - w[k][2] = w[m][3] - w[m][2]
                      /\ w[k][2] < w[m][2]
    /\ Len(w) > 0 => (w[1][2] = 0 /\ w[1][3] = n - 1)

\* C11: getWavefrontIndex(N, T) lists every pair i<j below N exactly once in
\* anti-diagonal order and puts the k-th pair on lane k mod T, for every size
\* and lane count of the bounds (a fact of the function alone, evaluated
\* before the call), and the partition of a symmetric() call is always the
\* list getWavefrontIndex gives for the size and the lane count of the call.
C11_WavefrontEnumeration ==
    /\ pc = "idle" =>
          \A n \in 1 .. MaxItems, t \in 1 .. MaxThreads :
              AntiDiagonalOrder(getWavefrontIndex(n, t), n, t)
    /\ Partitioned =>
          /\ N \in 1 .. MaxItems /\ hw \in 1 .. MaxThreads
          /\ m_wavefront = getWavefrontIndex(N, hw)

\* three items on two lanes: (0,2) and (1,2) on lane 0, (0,1) on lane 1
C11_Witness ==
    /\ Partitioned
    /\ N = 3
    /\ m_wavefront = <<<<0, 0, 2>>, <<1, 0, 1>>, <<0, 1, 2>>>>

\* the lane the partition gives the pair (i,j) to
LaneOf(i, j) ==
    CHOOSE t \in Indices(hw) :
        \E k \in 1 .. Len(m_wavefront) : m_wavefront[k] = <<t, i, j>>

\* C12: on the parallel path, in every interleaving, a cell is never written
\* twice, so never by two lanes; only cells (i,j) with i<j are written, each by
\* the lane the partition gave it to, and when the matrix is returned each of
\* them has been written exactly once.
C12_CellsWrittenOnce ==
    OnThreads =>
        \A c \in DOMAIN cellWrites :
            /\ Len(cellWrites[c]) <= 1
            /\ cellWrites[c] # <<>> =>
                  (c[1] < c[2] /\ cellWrites[c] = <<LaneOf(c[1], c[2])>>)
            /\ (GotMatrix /\ c[1] < c[2]) => Len(cellWrites[c]) = 1

\* three items, two lanes, the matrix returned: lane 0 wrote (0,2) and (1,2),
\* lane 1 wrote (0,1)
C12_Witness ==
    /\ OnThreads
    /\ GotMatrix
    /\ N = 3
    /\ cellWrites[<<0, 2>>] = <<0>>
    /\ cellWrites[<<0, 1>>] = <<1>>
    /\ cellWrites[<<1, 2>>] = <<0>>

\* symmetric() has passed line 327 and has done nothing else yet
SymmetricStarted ==
    /\ call.op = "symmetric"
    /\ pc \in {"par_first", "seq_row"}
    /\ li = 0
    /\ calls = NoCalls

\* C13: when symmetric() starts, the size cache has N entries and every entry
\* holds 0, the value the threads test for; so the entries the threads find
\* when they start are 0 or sizes the calling thread has stored.
C13_CacheStartsUncomputed ==
    /\ SymmetricStarted =>
          /\ DOMAIN m_cache = Indices(N)
          /\ \A k \in Indices(N) : Uncomputed(m_cache[k])
    /\ Partitioned =>
          \A k \in Indices(N) : launch.cache[k] \in {0, SizeOf(k)}

\* the part of C14 that the code keeps: an entry of the cache that differs
\* from what the threads found at their start holds the size of its own item
C14_WritesStoreOwnSizes ==
    Partitioned =>
        \A k \in Indices(N) : m_cache[k] \in {launch.cache[k], SizeOf(k)}

\* C14: on the parallel path, in every interleaving, every value written to
\* the cache entry k is the size of item k alone, and a thread that is about
\* to evaluate the formula for (i,j) reads from the entries i and j the sizes
\* of the items i and j alone.
C14_CacheHoldsOwnSizes ==
    /\ C14_WritesStoreOwnSizes
    /\ \A t \in Indices(MaxThreads) :
          LaneAt(t, "cell") =>
              /\ m_cache[First(t)] = SizeOf(First(t))
              /\ m_cache[Second(t)] = SizeOf(Second(t))

\* the first and the last index of the batch
Ends == {0, N - 1}

\* C15: on the parallel path the calling thread stores the sizes of item 0
\* and item N-1 before the partition is built and before a thread is created;
\* when one of the two cannot be compressed the call throws with no thread
\* created; and no thread ever finds the entry 0 or N-1 uncomputed, so no
\* thread compresses one of these two items alone.
C15_EndsCachedBeforeLaunch ==
    (OnThreads /\ N > 0) =>
        /\ created > 0 => Partitioned
        /\ Partitioned =>
              /\ \A k \in Ends : launch.cache[k] = SizeOf(k) /\ m_cache[k] = SizeOf(k)
              /\ \A k \in Ends : ~Uncomputed(m_cache[k])
        /\ (\E k \in Ends : ~Invocation(<<k>>).ok) =>
              /\ created = 0 /\ lanes = <<>> /\ ~Partitioned
              /\ ret.kind \in {"none", "throw"}
              /\ pc = "done" => \E k \in Ends : ret = Thrown(Invocation(<<k>>).err)
        /\ \A t \in DOMAIN lanes :
              /\ lanes[t].pc = "store1" => First(t) \notin Ends
              /\ lanes[t].pc = "store2" => Second(t) \notin Ends

\* three items, both threads created and joined: items 0 and 2 were
\* compressed once, by the calling thread, and item 1 by a thread
C15_Witness ==
    /\ OnThreads
    /\ GotMatrix
    /\ N = 3
    /\ created = hw
    /\ calls[<<0>>] = 1
    /\ calls[<<2>>] = 1
    /\ calls[<<1>>] = 1

\* the value unsymmetric() gives the cell (i,j): the signed formula over
\* compress(item_i, item_j) and the sizes of the two items alone, capped at 1
UnsymmetricCell(i, j) ==
    LET lo == IF SizeOf(i) < SizeOf(j) THEN SizeOf(i) ELSE SizeOf(j)
        hi == IF SizeOf(i) < SizeOf(j) THEN SizeOf(j) ELSE SizeOf(i)
        q  == Rat(PairSize(i, j) - lo, hi)
    IN  IF RatLess(One, q) THEN One ELSE q

\* C16: unsymmetric() on N >= 1 items compresses every item alone exactly
\* once, before any pair with that item is compressed for the formula, and
\* every ordered pair (i,j), i # j, exactly once; the cell (i,j) comes from
\* compress(item_i, item_j), the cell (j,i) from compress(item_j, item_i),
\* both capped at 1.
C16_UnsymmetricCalls ==
    (call.op = "unsymmetric" /\ N > 0) =>
        /\ \A sig \in CallSigs : calls[sig] <= 1
        /\ \A i, j \in Indices(N) :
              /\ calls[<<i, i>>] = 0
              /\ calls[<<i, j>>] > 0 =>
                    /\ calls[<<i>>] = 1 /\ l_cache[i] = SizeOf(i)
                    /\ calls[<<j>>] = 1 /\ l_cache[j] = SizeOf(j)
        /\ GotMatrix =>
              /\ \A k \in Indices(N) : calls[<<k>>] = 1
              /\ \A i, j \in Indices(N) :
                    i # j => /\ calls[<<i, j>>] = 1
                             /\ ret.value[<<i, j>>] = UnsymmetricCell(i, j)

\* unsymmetric() returned for three items; one pair inflates in one order
\* only, so its cell is capped at 1 and the mirrored cell is not
C16_Witness ==
    /\ call.op = "unsymmetric"
    /\ GotMatrix
    /\ N = 3
    /\ \E i, j \in Indices(N) :
          /\ i < j
          /\ PairSize(j, i) > SizeOf(i) + SizeOf(j)
          /\ ret.value[<<j, i>>] = One
          /\ RatLess(ret.value[<<i, j>>], One)

\* the pair calls deflate(item_i, item_j) made so far
PairCalls == {sig \in CallSigs : Len(sig) = 2 /\ calls[sig] > 0}

\* C17: symmetric(), on the fallback and on the parallel path, compresses a
\* pair only as (item_i, item_j) with i<j and never twice; when the matrix is
\* returned every pair i<j has been compressed exactly once, N(N-1)/2 calls
\* in all.
C17_OneOrderPerPair ==
    (call.op = "symmetric" /\ N > 0) =>
        /\ \A sig \in PairCalls : sig[1] < sig[2] /\ calls[sig] = 1
        /\ GotMatrix =>
              /\ \A i, j \in Indices(N) : i < j => calls[<<i, j>>] = 1
              /\ Cardinality(PairCalls) = PairCount(N)

\* the parallel path returned for three items of which one pair compresses
\* differently in its two orders; three pair calls were made
C17_Witness ==
    /\ OnThreads
    /\ GotMatrix
    /\ N = 3
    /\ Cardinality(PairCalls) = 3
    /\ \E i, j \in Indices(N) : i < j /\ PairSize(i, j) # PairSize(j, i)

\* the number of pairs the list w gives to lane t
LaneLoad(w, t) == Cardinality({k \in 1 .. Len(w) : w[k][1] = t})

\* the loads of two lanes differ by at most 1, and lane t has a pair exactly
\* when t is below the number of pairs
Balanced(w, n, lanecount) ==
    /\ \A s, t \in Indices(lanecount) : Abs(LaneLoad(w, s) - LaneLoad(w, t)) <= 1
    /\ \A t \in Indices(lanecount) : (LaneLoad(w, t) > 0) <=> (t < PairCount(n))

\* C18: the partition is balanced for every size and lane count of the
\* bounds (a fact of the function alone, evaluated before the call): two
\* lanes' pair counts differ by at most 1, lane t has a pair iff
\* t < N(N-1)/2; the partition of a call is the list the function gives; and
\* a thread whose lane is empty can only leave its loop: it compresses
\* nothing, stores nothing and writes no cell.
C18_BalancedPartition ==
    /\ pc = "idle" =>
          \A n \in 1 .. MaxItems, t \in 1 .. MaxThreads :
              Balanced(getWavefrontIndex(n, t), n, t)
    /\ Partitioned =>
          /\ N \in 1 .. MaxItems /\ hw \in 1 .. MaxThreads
          /\ m_wavefront = getWavefrontIndex(N, hw)
          /\ \A t \in DOMAIN lanes :
                LanePairs(t) = <<>> =>
                    /\ lanes[t] \in {[pc |-> "test1", k |-> 1, tmp |-> 0],
                                     [pc |-> "done", k |-> 1, tmp |-> 0]}
                    /\ \A c \in DOMAIN cellWrites :
                          \A k \in 1 .. Len(cellWrites[c]) : cellWrites[c][k] # t
                    /\ LaneAt(t, "test1") =>
                          ENABLED LaneExit(t) /\ ~ENABLED LaneTestFirst(t)

\* two items on two lanes: lane 0 wrote the only cell, the thread of the
\* empty lane 1 has finished, the matrix was returned
C18_Witness ==
    /\ OnThreads
    /\ GotMatrix
    /\ N = 2
    /\ LanePairs(1) = <<>>
    /\ lanes[1].pc = "done"
    /\ cellWrites[<<0, 1>>] = <<0>>

\* the part of C19 that the code keeps: on the fallback the two calls agree
\* on every pair whose joint size is not below the smaller single size
C19_EqualWithoutUnderflow ==
    (OnFallback /\ GotMatrix) =>
        \A i, j \in Indices(N) :
            (i < j /\ PairSize(i, j) >= Min(SizeOf(i), SizeOf(j))) =>
                ret.value[<<i, j>>] = UnsymmetricCell(i, j)

\* C19: for the same items and the same compressor, the entry (i,j), i<j, of
\* the matrix symmetric() returns equals the entry (i,j) unsymmetric()
\* returns, also when compress(item_i, item_j) is smaller than the smaller
\* of the two single sizes.
C19_SymmetricEqualsUnsymmetric ==
    (call.op = "symmetric" /\ GotMatrix) =>
        \A i, j \in Indices(N) :
            i < j => ret.value[<<i, j>>] = UnsymmetricCell(i, j)

\* every compression symmetric() asks for succeeds
AllCompress ==
    /\ \A k \in Indices(N) : Invocation(<<k>>).ok
    /\ \A i, j \in Indices(N) : i < j => Invocation(<<i, j>>).ok

\* every thread has been created, has walked its lane to the end and has left
AllLanesFinished ==
    /\ created = hw
    /\ \A t \in Indices(hw) :
          /\ t \in DOMAIN lanes
          /\ lanes[t].pc = "done"
          /\ lanes[t].k = Len(LanePairs(t)) + 1

\* C20: under a fair schedule a symmetric() call on the parallel path ends;
\* getWavefrontIndex is never run for an empty batch; and when every
\* compression succeeds, every thread reaches the end of its lane and the
\* call returns the matrix.
C20_SymmetricTerminates ==
    /\ [](pc \in {"par_wavefront", "par_create"} => N >= 1)
    /\ OnThreads ~> (pc = "done")
    /\ (OnThreads /\ N >= 1 /\ AllCompress) ~> (GotMatrix /\ AllLanesFinished)

\* three items that all compress, two threads: both threads reached the end
\* of their lanes, lane 0 after two pairs, and the matrix was returned
C20_Witness ==
    /\ OnThreads
    /\ N = 3
    /\ AllCompress
    /\ GotMatrix
    /\ AllLanesFinished
    /\ lanes[0].k = 3
    /\ lanes[1].k = 2

=============================================================================
